---------------------------- MODULE Spec2Model ----------------------------
(***************************************************************************)
(* Model of src/main.py (ai-process-report): the three response            *)
(* normalizers (analyze_processes_anthropic / _openai / _ollama), the      *)
(* report renderer generate_report with the report's sortProcesses script, *)
(* and the orchestrator main.                                              *)
(*                                                                         *)
(* Text is a sequence of tokens.  The labels "Process Name",               *)
(* "Description", "Threat Score" and words such as "a.exe" are one token   *)
(* each; ":", " ", "\n", "-", "+", "." and the digits are single           *)
(* characters.  A Python value is a record [t, s, m, e]: t is the type,    *)
(* s the text of a str, and m / 10^e the value of a float.  An optional    *)
(* value (a dict key that may be missing, a variable that may be None) is  *)
(* a sequence of length 0 or 1.                                            *)
(***************************************************************************)
EXTENDS Integers, Sequences, FiniteSets, TLC

VARIABLES
    ai_provider,      \* main(ai_provider)
    stage,            \* position of main: the stage to run next
    processes,        \* main: processes (the snapshot), a sequence of records
    files,            \* the files written to disk so far
    analysis,         \* the mapping a normalizer builds / returns
    report,           \* generate_report's result: the .process divs
    displayed,        \* webbrowser.open has been called
    error,            \* the exception caught (by a normalizer or by main)
    content,          \* the text payload a normalizer parses
    idx,              \* position of the parse loop in content.split('\n')
    current_process,  \* parse loop: current_process (optional name)
    description,      \* parse loop: description (list of text fragments)
    pc,               \* position inside a normalizer / generate_report
    response,         \* the kind of answer the backend call ended with
    dom,              \* browser: order of the .process divs in the container
    sortOrders,       \* browser: sortOrders[key]
    activeKey         \* browser: the key of the sort button shown in bold

vars == <<ai_provider, stage, processes, files, analysis, report, displayed,
          error, content, idx, current_process, description, pc, response,
          dom, sortOrders, activeKey>>

\* the variables of main, of the parse loops and of the browser
runVars == <<stage, files, displayed, response>>
reportVars == <<processes, report>>
loopVars == <<content, idx, current_process, description>>
pageVars == <<dom, sortOrders, activeKey>>

---------------------------------------------------------------------------
(* Bounds of the model.                                                    *)

\* longest payload, in lines
MaxLines == 4
\* largest snapshot, in process records
MaxProcs == 2
\* longest text payload, in lines, of a whole run of main
MaxRunLines == 2

---------------------------------------------------------------------------
(* Python str operations on token sequences.                               *)

IsSpace(tok) == tok \in {" ", "\t"}

RECURSIVE LStrip(_)
LStrip(s) ==
    IF s # <<>> /\ IsSpace(Head(s)) THEN LStrip(Tail(s)) ELSE s

RECURSIVE RStrip(_)
RStrip(s) ==
    IF s # <<>> /\ IsSpace(s[Len(s)]) THEN RStrip(SubSeq(s, 1, Len(s) - 1)) ELSE s

\* str.strip()
Strip(s) == RStrip(LStrip(s))

\* str.split(sep): always at least one piece
RECURSIVE Split(_, _)
Split(s, sep) ==
    IF s = <<>> THEN << <<>> >>
    ELSE IF Head(s) = sep THEN << <<>> >> \o Split(Tail(s), sep)
    ELSE LET r == Split(Tail(s), sep)
         IN  << <<Head(s)>> \o Head(r) >> \o Tail(r)

\* sep in s
Contains(s, sep) == \E i \in 1..Len(s) : s[i] = sep

\* str.split(sep, 1): one piece, or the text before and after the first sep
SplitOnce(s, sep) ==
    IF ~Contains(s, sep) THEN <<s>>
    ELSE LET i == CHOOSE i \in 1..Len(s) :
                      s[i] = sep /\ \A j \in 1..(i - 1) : s[j] # sep
         IN  <<SubSeq(s, 1, i - 1), SubSeq(s, i + 1, Len(s))>>

\* str.startswith(prefix)
StartsWith(s, prefix) ==
    Len(s) >= Len(prefix) /\ SubSeq(s, 1, Len(prefix)) = prefix

\* sep.join(parts)
RECURSIVE Join(_, _)
Join(parts, sep) ==
    IF parts = <<>> THEN <<>>
    ELSE IF Len(parts) = 1 THEN parts[1]
    ELSE parts[1] \o <<sep>> \o Join(Tail(parts), sep)

---------------------------------------------------------------------------
(* Python values.                                                          *)

PyStr(s) == [t |-> "str", s |-> s, m |-> 0, e |-> 0]
PyFloat(m, e) == [t |-> "float", s |-> <<>>, m |-> m, e |-> e]
PyNone == [t |-> "None", s |-> <<>>, m |-> 0, e |-> 0]
PyList == [t |-> "list", s |-> <<>>, m |-> 0, e |-> 0]

Digits == {"0", "1", "2", "3", "4", "5", "6", "7", "8", "9"}

DigitValue(tok) ==
    CASE tok = "0" -> 0 [] tok = "1" -> 1 [] tok = "2" -> 2 [] tok = "3" -> 3
      [] tok = "4" -> 4 [] tok = "5" -> 5 [] tok = "6" -> 6 [] tok = "7" -> 7
      [] tok = "8" -> 8 [] tok = "9" -> 9

RECURSIVE DigitsValue(_)
DigitsValue(s) ==
    IF s = <<>> THEN 0
    ELSE DigitsValue(SubSeq(s, 1, Len(s) - 1)) * 10 + DigitValue(s[Len(s)])

RECURSIVE Pow10(_)
Pow10(n) == IF n = 0 THEN 1 ELSE 10 * Pow10(n - 1)

\* the same number without trailing zeros in its fraction
RECURSIVE Normal(_)
Normal(f) ==
    IF f.e > 0 /\ f.m % 10 = 0 THEN Normal(PyFloat(f.m \div 10, f.e - 1)) ELSE f

\* float(text): [ok |-> FALSE] stands for ValueError.  The text is stripped,
\* then an optional sign, digits and at most one "." with at least one digit.
ParseFloat(text) ==
    LET t      == Strip(text)
        signed == t # <<>> /\ Head(t) \in {"-", "+"}
        body   == IF signed THEN Tail(t) ELSE t
        parts  == Split(body, ".")
        int    == parts[1]
        frac   == IF Len(parts) = 2 THEN parts[2] ELSE <<>>
        ok     == /\ Len(parts) <= 2
                  /\ Len(int) + Len(frac) >= 1
                  /\ \A i \in 1..Len(int) : int[i] \in Digits
                  /\ \A i \in 1..Len(frac) : frac[i] \in Digits
        mag    == DigitsValue(int \o frac)
    IN  IF ok
        THEN [ok |-> TRUE,
              val |-> Normal(PyFloat(IF Head(t) = "-" THEN 0 - mag ELSE mag,
                                     Len(frac)))]
        ELSE [ok |-> FALSE, val |-> PyNone]

\* a < b on floats
FloatLess(a, b) == a.m * Pow10(b.e) < b.m * Pow10(a.e)

FloatOfInt(n) == PyFloat(n, 0)

---------------------------------------------------------------------------
(* Python dicts.  The mapping a normalizer builds is [t |-> "dict", m |-> f] *)
(* with f a function from names to entries; an entry built by a parse loop *)
(* is a dict whose keys 'description' and 'threat_score' may be missing.    *)

EmptyMap == [k \in {} |-> 0]

\* {}
EmptyDict == [t |-> "dict", description |-> <<>>, threat_score |-> <<>>]

\* a decoded JSON value that is no dict, in the place of an entry
NonDict(type) == [t |-> type, description |-> <<>>, threat_score |-> <<>>]

Mapping(f) == [t |-> "dict", m |-> f]

\* a decoded JSON value that is no dict, in the place of the mapping
NonMapping(type) == [t |-> type, m |-> EmptyMap]

\* d[k] = v
DictSet(f, k, v) == [x \in (DOMAIN f) \cup {k} |-> IF x = k THEN v ELSE f[x]]

\* bool(current_process): None and '' are falsy
Truthy(opt) == opt # <<>> /\ opt[1] # <<>>

NA == PyStr(<<"N/A">>)

NameLabel == <<"Process Name", ":">>
DescriptionLabel == <<"Description", ":">>
ScoreLabel == <<"Threat Score", ":">>

---------------------------------------------------------------------------
(* The free-text parse loop of analyze_processes_anthropic and             *)
(* analyze_processes_openai (the two loops are the same code).  st is the  *)
(* loop's state: analysis (the function f of the mapping), current_process,*)
(* description and error (the exception that left the loop, "" for none).  *)

ParseStart ==
    [analysis |-> EmptyMap, current_process |-> <<>>, description |-> <<>>,
     error |-> ""]

\* analysis[current_process]['description'] = ' '.join(description)
Flush(st) ==
    IF Truthy(st.current_process)
    THEN LET cp == st.current_process[1]
         IN  [st EXCEPT !.analysis =
                 DictSet(@, cp, [@[cp] EXCEPT !.description =
                                    <<PyStr(Join(st.description, " "))>>])]
    ELSE st

\* analysis[current_process]['threat_score'] = v; KeyError when
\* current_process is no key of analysis (it is None)
StoreScore(st, v) ==
    IF st.current_process = <<>>
    THEN [st EXCEPT !.error = "KeyError"]
    ELSE LET cp == st.current_process[1]
         IN  [st EXCEPT !.analysis =
                 DictSet(@, cp, [@[cp] EXCEPT !.threat_score = <<v>>])]

\* NameLine with analysis.setdefault(current_process, {}) in the place of
\* analysis[current_process] = {}: a repeated name keeps its earlier entry
NameLineKeepsEntry(st, line) ==
    LET flushed == Flush(st)
        name    == Strip(Split(line, ":")[2])
    IN  [flushed EXCEPT !.current_process = <<name>>,
                        !.analysis = IF name \in DOMAIN @ THEN @
                                     ELSE DictSet(@, name, EmptyDict),
                        !.description = <<>>]

\* the line.startswith("Process Name:") branch
NameLine(st, line) ==
    LET flushed == Flush(st)
        name    == Strip(Split(line, ":")[2])
    IN  [flushed EXCEPT !.current_process = <<name>>,
                        !.analysis = DictSet(@, name, EmptyDict),
                        !.description = <<>>]

\* ScoreLine without its try / except ValueError
ScoreLineNoExcept(st, line) ==
    LET f == ParseFloat(Strip(Split(line, ":")[2]))
    IN  IF f.ok THEN StoreScore(st, f.val) ELSE [st EXCEPT !.error = "ValueError"]

\* the line.startswith("Threat Score:") branch
ScoreLine(st, line) ==
    LET f == ParseFloat(Strip(Split(line, ":")[2]))
    IN  StoreScore(st, IF f.ok THEN f.val ELSE NA)

\* one iteration of: for line in content.split('\n')
FreeTextStep(st, line) ==
    IF StartsWith(line, NameLabel) THEN NameLine(st, line)
    ELSE IF StartsWith(line, DescriptionLabel)
    THEN [st EXCEPT !.description =
             Append(@, Strip(SplitOnce(line, ":")[2]))]
    ELSE IF StartsWith(line, ScoreLabel) THEN ScoreLine(st, line)
    ELSE IF Strip(line) # <<>> /\ Truthy(st.current_process)
    THEN [st EXCEPT !.description = Append(@, Strip(line))]
    ELSE st

\* the loop over the lines, left at the first exception
RECURSIVE FreeTextLoop(_, _)
FreeTextLoop(st, ls) ==
    IF ls = <<>> \/ st.error # "" THEN st
    ELSE FreeTextLoop(FreeTextStep(st, Head(ls)), Tail(ls))

\* the parse of a payload: the mapping returned, {} when an exception was
\* caught by the except clause around the loop
FreeTextParse(text) ==
    LET st == FreeTextLoop(ParseStart, Split(text, "\n"))
    IN  IF st.error # "" THEN Mapping(EmptyMap) ELSE Mapping(Flush(st).analysis)

---------------------------------------------------------------------------
(* The manual extraction of analyze_processes_ollama, run when json.loads  *)
(* raises JSONDecodeError.  Its state has no description list.             *)

\* one iteration of: for line in analysis_text.split('\n')
FallbackStep(st, line) ==
    IF ~Contains(line, ":") THEN st
    ELSE LET kv    == SplitOnce(line, ":")
             key   == Strip(kv[1])
             value == Strip(kv[2])
             cp    == st.current_process[1]
             f     == ParseFloat(value)
         IN  IF key = <<"Process Name">>
             THEN [st EXCEPT !.current_process = <<value>>,
                             !.analysis = DictSet(@, value, EmptyDict)]
             ELSE IF key = <<"Description">> /\ Truthy(st.current_process)
             THEN [st EXCEPT !.analysis =
                      DictSet(@, cp, [@[cp] EXCEPT !.description =
                                         <<PyStr(value)>>])]
             ELSE IF key = <<"Threat Score">> /\ Truthy(st.current_process)
             THEN [st EXCEPT !.analysis =
                      DictSet(@, cp, [@[cp] EXCEPT !.threat_score =
                                         <<IF f.ok THEN f.val ELSE NA>>])]
             ELSE st

RECURSIVE FallbackLoop(_, _)
FallbackLoop(st, ls) ==
    IF ls = <<>> THEN st ELSE FallbackLoop(FallbackStep(st, Head(ls)), Tail(ls))

FallbackParse(text) ==
    Mapping(FallbackLoop(ParseStart, Split(text, "\n")).analysis)

---------------------------------------------------------------------------
(* Inputs: the payloads a backend may answer with.                         *)

Providers == {"ollama", "anthropic", "openai"}
FreeTextProviders == {"anthropic", "openai"}

\* the lines payloads are made of
PoolLines ==
    { <<"Process Name", ":", " ", "a.exe">>,
      <<"Process Name", ":", " ", "C", ":", "/b.exe">>,
      <<"Description", ":", " ", "w1">>,
      <<" ", "w2">>,
      <<"Threat Score", ":", " ", "1", "5">>,
      <<"Threat Score", ":", " ", "high">>,
      <<>> }

SeqsUpTo(S, n) == UNION {[1..k -> S] : k \in 0..n}

\* the text of the lines ls
TextOf(ls) == Join(ls, "\n")

Payloads == {TextOf(ls) : ls \in SeqsUpTo(PoolLines, MaxLines)}

InitialSortOrders ==
    [key \in {"threat-score", "name"} |->
        IF key = "threat-score" THEN "desc" ELSE "asc"]

---------------------------------------------------------------------------
(* SpecParse: the parse loops, one line per step, on every payload.        *)

ContentLines == Split(content, "\n")

LoopState ==
    [analysis |-> analysis.m, current_process |-> current_process,
     description |-> description, error |-> error]

InitParse ==
    /\ ai_provider \in Providers
    /\ content \in Payloads
    /\ idx = 1
    /\ analysis = Mapping(EmptyMap)
    /\ current_process = <<>>
    /\ description = <<>>
    /\ error = ""
    /\ pc = "loop"
    /\ stage = "ANALYZE"
    /\ processes = <<>>
    /\ files = {}
    /\ report = <<>>
    /\ displayed = FALSE
    /\ response = "text"
    /\ dom = <<>>
    /\ sortOrders = InitialSortOrders
    /\ activeKey = ""

\* anthropic / openai: one iteration of the loop; an exception leaves it
FreeTextLine ==
    /\ pc = "loop"
    /\ ai_provider \in FreeTextProviders
    /\ idx <= Len(ContentLines)
    /\ LET st == FreeTextStep(LoopState, ContentLines[idx])
       IN  /\ analysis' = Mapping(st.analysis)
           /\ current_process' = st.current_process
           /\ description' = st.description
           /\ error' = st.error
           /\ IF st.error # ""
              THEN pc' = "except" /\ idx' = idx
              ELSE pc' = "loop" /\ idx' = idx + 1
    /\ UNCHANGED <<ai_provider, content, runVars, reportVars, pageVars>>

\* anthropic / openai: "Add the last process if exists", return analysis
FreeTextReturn ==
    /\ pc = "loop"
    /\ ai_provider \in FreeTextProviders
    /\ idx > Len(ContentLines)
    /\ analysis' = Mapping(Flush(LoopState).analysis)
    /\ pc' = "return"
    /\ UNCHANGED <<ai_provider, error, loopVars, runVars, reportVars, pageVars>>

\* anthropic / openai: except Exception: ... return {}
FreeTextExcept ==
    /\ pc = "except"
    /\ analysis' = Mapping(EmptyMap)
    /\ pc' = "return"
    /\ UNCHANGED <<ai_provider, error, loopVars, runVars, reportVars, pageVars>>

\* ollama, after JSONDecodeError: one iteration of the loop
FallbackLine ==
    /\ pc = "loop"
    /\ ai_provider = "ollama"
    /\ idx <= Len(ContentLines)
    /\ LET st == FallbackStep(LoopState, ContentLines[idx])
       IN  /\ analysis' = Mapping(st.analysis)
           /\ current_process' = st.current_process
    /\ idx' = idx + 1
    /\ UNCHANGED <<ai_provider, error, content, description, pc, runVars,
                   reportVars, pageVars>>

\* ollama: return analysis
FallbackReturn ==
    /\ pc = "loop"
    /\ ai_provider = "ollama"
    /\ idx > Len(ContentLines)
    /\ pc' = "return"
    /\ UNCHANGED <<ai_provider, analysis, error, loopVars, runVars, reportVars,
                   pageVars>>

NextParse ==
    \/ FreeTextLine
    \/ FreeTextReturn
    \/ FreeTextExcept
    \/ FallbackLine
    \/ FallbackReturn

SpecParse == InitParse /\ [][NextParse]_vars

---------------------------------------------------------------------------
(* The payload as the claims describe it: labelled lines and blocks.       *)

IsNameLine(line) == StartsWith(line, NameLabel)
IsDescriptionLine(line) == StartsWith(line, DescriptionLabel)
IsScoreLine(line) == StartsWith(line, ScoreLabel)
IsContinuation(line) ==
    /\ ~IsNameLine(line) /\ ~IsDescriptionLine(line) /\ ~IsScoreLine(line)
    /\ Strip(line) # <<>>

\* the text after the label and its colon, trimmed
ValueOf(line) == Strip(SubSeq(line, 3, Len(line)))

\* the name the free-text loop reads from a name line
KeyOf(line) == Strip(Split(line, ":")[2])

NameIndexes(ls) == {i \in 1..Len(ls) : IsNameLine(ls[i])}

\* the lines of the block opened by the name line i: up to the next name line
BlockOf(ls, i) ==
    LET later == {j \in NameIndexes(ls) : j > i}
        last  == IF later = {} THEN Len(ls)
                 ELSE (CHOOSE j \in later : \A k \in later : j <= k) - 1
    IN  SubSeq(ls, i + 1, last)

\* in order, the texts of the Description and continuation lines of a block
RECURSIVE DescriptionParts(_)
DescriptionParts(block) ==
    IF block = <<>> THEN <<>>
    ELSE LET line == Head(block)
         IN  (IF IsDescriptionLine(line) THEN <<ValueOf(line)>>
              ELSE IF IsContinuation(line) THEN <<Strip(line)>>
              ELSE <<>>) \o DescriptionParts(Tail(block))

ScoreIndexes(block) == {i \in 1..Len(block) : IsScoreLine(block[i])}

\* the payload follows the exact pattern: blocks of a name line, a
\* Description line, any continuation lines and one Threat Score line
ExactPattern(ls) ==
    /\ ls # <<>>
    /\ IsNameLine(ls[1])
    /\ \A i \in 1..Len(ls) :
          \/ IsNameLine(ls[i]) \/ IsDescriptionLine(ls[i])
          \/ IsScoreLine(ls[i]) \/ IsContinuation(ls[i])
    /\ \A i \in NameIndexes(ls) :
          LET block == BlockOf(ls, i)
          IN  /\ block # <<>>
              /\ IsDescriptionLine(block[1])
              /\ Cardinality({j \in 1..Len(block) :
                                 IsDescriptionLine(block[j])}) = 1
              /\ Cardinality(ScoreIndexes(block)) = 1

\* the last name line that names n, n being the whole text after the label
LastLineNaming(ls, n) ==
    CHOOSE i \in NameIndexes(ls) :
        /\ ValueOf(ls[i]) = n
        /\ \A j \in NameIndexes(ls) : ValueOf(ls[j]) = n => j <= i

Returned == pc = "return"

\* C2: on a payload of the exact Process Name / Description / Threat Score
\* pattern the free-text parser returns one entry per distinct process name
\* (the text after the "Process Name:" label), whose description is the
\* space-joined Description and continuation lines of that name's block.
C2_OneEntryPerName ==
    (Returned /\ ai_provider \in FreeTextProviders /\ ExactPattern(ContentLines))
    => LET ls    == ContentLines
           names == {ValueOf(ls[i]) : i \in NameIndexes(ls)}
       IN  /\ analysis.t = "dict"
           /\ DOMAIN analysis.m = names
           /\ \A n \in names :
                 analysis.m[n].description =
                    <<PyStr(Join(DescriptionParts(
                                    BlockOf(ls, LastLineNaming(ls, n))), " "))>>

\* C3: on a payload that is no JSON, the ollama fallback returns the mapping
\* the free-text algorithm of anthropic / openai returns on the same text.
C3_FallbackIsFreeText ==
    (Returned /\ ai_provider = "ollama") => analysis = FreeTextParse(content)

InRange(v) ==
    /\ v.t = "float"
    /\ ~FloatLess(v, FloatOfInt(0))
    /\ ~FloatLess(FloatOfInt(10), v)

\* C5: every threat_score a normalizer returns is a number in [0,10] or the
\* sentinel.
C5_ScoresInRange ==
    Returned =>
        \A n \in DOMAIN analysis.m :
            \A v \in {analysis.m[n].threat_score[i] :
                         i \in 1..Len(analysis.m[n].threat_score)} :
                v = NA \/ InRange(v)

\* C6: in the free-text parser, a Threat Score line after a Process Name line
\* whose value (colon-free text) is no valid float stores the sentinel in
\* the open entry, raises nothing, and changes no other entry.
C6_BadScoreStoresSentinel ==
    [][(/\ pc = "loop"
        /\ ai_provider \in FreeTextProviders
        /\ idx <= Len(ContentLines)
        /\ IsScoreLine(ContentLines[idx])
        /\ ~Contains(ValueOf(ContentLines[idx]), ":")
        /\ ~ParseFloat(ValueOf(ContentLines[idx])).ok
        /\ current_process # <<>>)
       => (/\ error' = ""
           /\ pc' = "loop"
           /\ idx' = idx + 1
           /\ DOMAIN analysis'.m = DOMAIN analysis.m
           /\ \A n \in DOMAIN analysis.m :
                 analysis'.m[n] =
                    IF n = current_process[1]
                    THEN [analysis.m[n] EXCEPT !.threat_score = <<NA>>]
                    ELSE analysis.m[n])]_vars

\* C6 witness: the loop has just read such a line while another entry was
\* already in the mapping.
C6_Witness ==
    /\ pc = "loop"
    /\ ai_provider \in FreeTextProviders
    /\ idx > 1
    /\ IsScoreLine(ContentLines[idx - 1])
    /\ ~ParseFloat(ValueOf(ContentLines[idx - 1])).ok
    /\ current_process # <<>>
    /\ analysis.m[current_process[1]].threat_score = <<NA>>
    /\ \E n \in DOMAIN analysis.m :
          n # current_process[1] /\ analysis.m[n].description # <<>>

\* the entry the free-text loop is to build from the block opened by name
\* line i: the joined description parts, and the last Threat Score line's
\* value when the block has one
BlockEntry(ls, i) ==
    LET block  == BlockOf(ls, i)
        scores == ScoreIndexes(block)
        last   == CHOOSE j \in scores : \A k \in scores : k <= j
        f      == ParseFloat(KeyOf(block[last]))
    IN  [t |-> "dict",
         description |->
            IF KeyOf(ls[i]) = <<>> THEN <<>>
            ELSE <<PyStr(Join(DescriptionParts(block), " "))>>,
         threat_score |->
            IF scores = {} THEN <<>>
            ELSE <<IF f.ok THEN f.val ELSE NA>>]

\* the last name line whose name, as the loop reads it, is n
LastLineFor(ls, n) ==
    CHOOSE i \in NameIndexes(ls) :
        /\ KeyOf(ls[i]) = n
        /\ \A j \in NameIndexes(ls) : KeyOf(ls[j]) = n => j <= i

\* the name the ollama loop reads from a line, if it reads one
FallbackKeyOf(line) ==
    IF Contains(line, ":") /\ Strip(SplitOnce(line, ":")[1]) = <<"Process Name">>
    THEN <<Strip(SplitOnce(line, ":")[2])>>
    ELSE <<>>

\* the last line from which the ollama loop reads the name n
LastFallbackLineFor(ls, n) ==
    CHOOSE i \in 1..Len(ls) :
        /\ FallbackKeyOf(ls[i]) = <<n>>
        /\ \A j \in 1..Len(ls) : FallbackKeyOf(ls[j]) = <<n>> => j <= i

\* the lines of ls from line i on
LinesFrom(ls, i) == SubSeq(ls, i, Len(ls))

\* C7: the entry returned for a name holds only what the lines after the
\* last "Process Name:" line for that name give: nothing of an earlier
\* block of the same name survives (free-text loop: the entry is exactly
\* the last block's; ollama loop: the entry is the one parsed from the
\* last occurrence on).
C7_LastOccurrenceWins ==
    Returned =>
        LET ls == ContentLines
        IN  IF ai_provider \in FreeTextProviders
            THEN \A n \in DOMAIN analysis.m :
                    analysis.m[n] = BlockEntry(ls, LastLineFor(ls, n))
            ELSE \A n \in DOMAIN analysis.m :
                    analysis.m[n] =
                       FallbackParse(TextOf(LinesFrom(
                          ls, LastFallbackLineFor(ls, n)))).m[n]

\* C7 witness: a name occurs twice with another block in between, its
\* first block had a description and a score, its last block has neither
\* a Description nor a Threat Score line.
C7_Witness ==
    /\ Returned
    /\ ai_provider \in FreeTextProviders
    /\ \E i, j, k \in NameIndexes(ContentLines) :
          LET ls == ContentLines
          IN  /\ i < j /\ j < k
              /\ KeyOf(ls[i]) = KeyOf(ls[k])
              /\ KeyOf(ls[j]) # KeyOf(ls[k])
              /\ k = LastLineFor(ls, KeyOf(ls[k]))
              /\ (\/ DescriptionParts(BlockOf(ls, i)) # <<>>
                  \/ ScoreIndexes(BlockOf(ls, i)) # {})
              /\ BlockOf(ls, k) = <<>>
              /\ analysis.m[KeyOf(ls[k])] =
                    [t |-> "dict", description |-> <<PyStr(<<>>)>>,
                     threat_score |-> <<>>]

---------------------------------------------------------------------------
(* The normalizers as whole functions of the backend's answer.  An answer  *)
(* is [kind, text, value]: "error" (the call raised: transport error or    *)
(* non-success status), "noresponse" (ollama: no 'response' key in the     *)
(* body), "none" (openai: message.content is None), "text" (a text         *)
(* payload) and "json" (ollama: a payload json.loads decodes, to value).   *)
(* The result is [raised, value]: raised names the exception that leaves   *)
(* the function, "" when it returns value.                                 *)

Answer(kind, text, value) == [kind |-> kind, text |-> text, value |-> value]

Returns(value) == [raised |-> "", value |-> value]
Raises(exception) == [raised |-> exception, value |-> Mapping(EmptyMap)]

\* analyze_processes_anthropic: when client.messages.create raises, the
\* except clause reads response.content of a `response` never assigned
AnalyzeAnthropic(answer) ==
    IF answer.kind = "error" THEN Raises("UnboundLocalError")
    ELSE Returns(FreeTextParse(answer.text))

\* analyze_processes_openai: None.split raises AttributeError, caught
AnalyzeOpenAI(answer) ==
    IF answer.kind \in {"error", "none"} THEN Returns(Mapping(EmptyMap))
    ELSE Returns(FreeTextParse(answer.text))

\* analyze_processes_ollama: the decoded value is returned as it is when
\* len() accepts it
AnalyzeOllama(answer) ==
    IF answer.kind \in {"error", "noresponse"} THEN Returns(Mapping(EmptyMap))
    ELSE IF answer.kind = "json"
    THEN IF answer.value.t \in {"dict", "list", "str"}
         THEN Returns(answer.value)
         ELSE Returns(Mapping(EmptyMap))
    ELSE Returns(FallbackParse(answer.text))

---------------------------------------------------------------------------
(* generate_report: one .process div per process record.                   *)

NoAnalysis == <<"No analysis available">>
TypicalFunction == <<"Typical function", ":">>

\* str.replace(old, '', 1)
RECURSIVE RemoveFirst(_, _)
RemoveFirst(s, old) ==
    IF Len(s) < Len(old) THEN s
    ELSE IF StartsWith(s, old) THEN SubSeq(s, Len(old) + 1, Len(s))
    ELSE <<Head(s)>> \o RemoveFirst(Tail(s), old)

\* urllib.parse.quote, token by token
QuoteToken(tok) ==
    CASE tok = " " -> "%20" [] tok = ":" -> "%3A" [] tok = "\t" -> "%09"
      [] OTHER -> tok

Quote(s) == [i \in 1..Len(s) |-> QuoteToken(s[i])]

SearchLink(name) == <<"https://duckduckgo.com/?q=">> \o Quote(name)

DigitToken(d) == CHOOSE tok \in Digits : DigitValue(tok) = d

RECURSIVE NatTokens(_)
NatTokens(n) ==
    IF n < 10 THEN <<DigitToken(n)>>
    ELSE NatTokens(n \div 10) \o <<DigitToken(n % 10)>>

RECURSIVE PaddedTokens(_, _)
PaddedTokens(n, width) ==
    IF width = 0 THEN <<>>
    ELSE PaddedTokens(n \div 10, width - 1) \o <<DigitToken(n % 10)>>

Abs(n) == IF n < 0 THEN 0 - n ELSE n

\* str(x) of a float ("15.0", "3.9") and of the int -1 ("-1")
FloatRepr(f) ==
    (IF f.m < 0 THEN <<"-">> ELSE <<>>)
    \o NatTokens(Abs(f.m) \div Pow10(f.e))
    \o <<".">>
    \o (IF f.e = 0 THEN <<"0">> ELSE PaddedTokens(Abs(f.m) % Pow10(f.e), f.e))

MinusOne == <<"-", "1">>

\* float(threat_score): ValueError for a str that is no number, TypeError
\* for None and for a list
ToFloat(v) ==
    IF v.t = "float" THEN [raised |-> "", val |-> v]
    ELSE IF v.t = "str"
    THEN IF ParseFloat(v.s).ok
         THEN [raised |-> "", val |-> ParseFloat(v.s).val]
         ELSE [raised |-> "ValueError", val |-> PyNone]
    ELSE [raised |-> "TypeError", val |-> PyNone]

ThreatClass(num) ==
    IF FloatLess(num, FloatOfInt(4)) THEN "threat-low"
    ELSE IF FloatLess(num, FloatOfInt(7)) THEN "threat-medium"
    ELSE "threat-high"

Get(opt, default) == IF opt = <<>> THEN default ELSE opt[1]

\* the text shown after "Analysis:"
Shown(text) == Strip(RemoveFirst(text, TypicalFunction))

\* one iteration of: for process in processes.  The score shown is the
\* float handed to the :.1f format, or 'N/A'.
RenderProcess(process, result) ==
    IF result.t # "dict" THEN [raised |-> "AttributeError", div |-> <<>>]
    ELSE
    LET process_analysis ==
            IF process.name \in DOMAIN result.m THEN result.m[process.name]
            ELSE EmptyDict
    IN  IF process_analysis.t # "dict"
        THEN [raised |-> "AttributeError", div |-> <<>>]
        ELSE
        LET desc         == Get(process_analysis.description, PyStr(NoAnalysis))
            threat_score == Get(process_analysis.threat_score, NA)
            num          == ToFloat(threat_score)
            search_link  == IF desc = PyStr(NoAnalysis)
                            THEN SearchLink(process.name) ELSE <<>>
        IN  IF num.raised = "TypeError"
            THEN [raised |-> "TypeError", div |-> <<>>]
            ELSE IF desc.t # "str"
            THEN [raised |-> "AttributeError", div |-> <<>>]
            ELSE [raised |-> "",
                  div |-> <<[pid |-> process.pid,
                             data_name |-> process.name,
                             data_threat_score |->
                                IF num.raised = "" THEN FloatRepr(num.val)
                                ELSE MinusOne,
                             analysis_text |-> Shown(desc.s),
                             search_link |-> search_link,
                             threat_class |->
                                IF num.raised = "" THEN ThreatClass(num.val)
                                ELSE "threat-low",
                             threat_score_display |->
                                IF num.raised = "" THEN num.val ELSE NA]>>]

\* the loop over the processes, left at the first exception
RECURSIVE RenderLoop(_, _, _)
RenderLoop(divs, ps, result) ==
    IF ps = <<>> THEN [raised |-> "", divs |-> divs]
    ELSE LET r == RenderProcess(Head(ps), result)
         IN  IF r.raised # "" THEN [raised |-> r.raised, divs |-> <<>>]
             ELSE RenderLoop(divs \o r.div, Tail(ps), result)

\* generate_report that renders only the processes the mapping analyses
GenerateReportAnalysedOnly(ps, result) ==
    RenderLoop(<<>>,
               SelectSeq(ps, LAMBDA p : result.t = "dict"
                                        /\ p.name \in DOMAIN result.m),
               result)

GenerateReport(ps, result) == RenderLoop(<<>>, ps, result)

---------------------------------------------------------------------------
(* The report's script: sortProcesses(key) and updateSortButtons.          *)

NaN == [t |-> "NaN", s |-> <<>>, m |-> 0, e |-> 0]

RECURSIVE TakeDigits(_)
TakeDigits(s) ==
    IF s # <<>> /\ Head(s) \in Digits THEN <<Head(s)>> \o TakeDigits(Tail(s))
    ELSE <<>>

\* JavaScript parseFloat: the longest numeric prefix, NaN when there is none
JSParseFloat(text) ==
    LET t      == LStrip(text)
        signed == t # <<>> /\ Head(t) \in {"-", "+"}
        body   == IF signed THEN Tail(t) ELSE t
        int    == TakeDigits(body)
        rest   == SubSeq(body, Len(int) + 1, Len(body))
        frac   == IF rest # <<>> /\ Head(rest) = "." THEN TakeDigits(Tail(rest))
                  ELSE <<>>
        mag    == DigitsValue(int \o frac)
    IN  IF Len(int) + Len(frac) = 0 THEN NaN
        ELSE Normal(PyFloat(IF Head(t) = "-" THEN 0 - mag ELSE mag, Len(frac)))

\* parseFloat(aVal) || -1: NaN and 0 are falsy
OrMinusOne(v) == IF v.t = "NaN" \/ v.m = 0 THEN FloatOfInt(0 - 1) ELSE v

\* the code-unit order of the first characters of the name tokens
CodeUnit(tok) == CASE tok = "a.exe" -> 97 [] tok = "b.exe" -> 98 [] OTHER -> 0

\* a < b on JavaScript strings
RECURSIVE StrLess(_, _)
StrLess(a, b) ==
    IF b = <<>> THEN FALSE
    ELSE IF a = <<>> THEN TRUE
    ELSE IF Head(a) = Head(b) THEN StrLess(Tail(a), Tail(b))
    ELSE CodeUnit(Head(a)) < CodeUnit(Head(b))

\* aVal < bVal for the values sortProcesses compares under key
ValLess(a, b, key) ==
    IF key = "threat-score"
    THEN FloatLess(OrMinusOne(JSParseFloat(a.data_threat_score)),
                   OrMinusOne(JSParseFloat(b.data_threat_score)))
    ELSE StrLess(a.data_name, b.data_name)

\* the comparator handed to processes.sort
Compare(a, b, key, order) ==
    IF order = "asc"
    THEN IF ValLess(b, a, key) THEN 1 ELSE IF ValLess(a, b, key) THEN 0 - 1 ELSE 0
    ELSE IF ValLess(a, b, key) THEN 1 ELSE IF ValLess(b, a, key) THEN 0 - 1 ELSE 0

\* x placed into the sorted s, after the elements it does not precede
RECURSIVE Insert(_, _, _, _)
Insert(x, s, key, order) ==
    IF s = <<>> THEN <<x>>
    ELSE IF Compare(x, Head(s), key, order) < 0 THEN <<x>> \o s
    ELSE <<Head(s)>> \o Insert(x, Tail(s), key, order)

\* Array.prototype.sort (stable) with the comparator
RECURSIVE SortDivs(_, _, _)
SortDivs(divs, key, order) ==
    IF divs = <<>> THEN <<>>
    ELSE Insert(divs[Len(divs)],
                SortDivs(SubSeq(divs, 1, Len(divs) - 1), key, order),
                key, order)

Toggle(order) == IF order = "asc" THEN "desc" ELSE "asc"

---------------------------------------------------------------------------
(* Inputs of generate_report and of main.                                  *)

ProcNames == {<<"a.exe">>, <<"b.exe">>}

\* get_processes: up to MaxProcs records; two records may share a name
Snapshots ==
    {[i \in 1..Len(ns) |-> [pid |-> i, name |-> ns[i]]] :
        ns \in SeqsUpTo(ProcNames, MaxProcs)}

Text1 == PyStr(<<"w1">>)

Entry(desc, score) ==
    [t |-> "dict", description |-> desc, threat_score |-> score]

\* the entries a returned mapping may hold: built by a parse loop, or
\* accepted from a JSON payload as they are
EntryChoices ==
    { Entry(<<Text1>>, <<PyFloat(0, 0)>>),
      Entry(<<PyStr(<<"Typical function", ":", " ", "w1">>)>>, <<PyFloat(39, 1)>>),
      Entry(<<Text1>>, <<PyFloat(4, 0)>>),
      Entry(<<Text1>>, <<PyFloat(69, 1)>>),
      Entry(<<PyStr(<<>>)>>, <<PyFloat(7, 0)>>),
      Entry(<<>>, <<PyFloat(10, 0)>>),
      Entry(<<Text1>>, <<NA>>),
      Entry(<<Text1>>, <<>>),
      Entry(<<Text1>>, <<PyStr(<<"7">>)>>),
      Entry(<<Text1>>, <<PyNone>>),
      Entry(<<PyNone>>, <<PyFloat(3, 0)>>),
      NonDict("str") }

\* the values a normalizer may return
Analyses ==
    {Mapping(f) : f \in UNION {[D -> EntryChoices] : D \in SUBSET ProcNames}}
    \cup {NonMapping("list"), NonMapping("str")}

RunPayloads == {TextOf(ls) : ls \in SeqsUpTo(PoolLines, MaxRunLines)}

NoValue == Mapping(EmptyMap)

\* the answers of the backend of a provider
Answers(provider) ==
    {Answer("error", <<>>, NoValue)}
    \cup {Answer("text", p, NoValue) : p \in RunPayloads}
    \cup (IF provider = "openai" THEN {Answer("none", <<>>, NoValue)} ELSE {})
    \cup (IF provider = "ollama"
          THEN {Answer("noresponse", <<>>, NoValue)}
               \cup {Answer("json", <<>>, v) :
                        v \in Analyses \cup {NonMapping("int"),
                                             NonMapping("None")}}
          ELSE {})

---------------------------------------------------------------------------
(* Spec: a run of main(ai_provider), one stage per step.  An exception     *)
(* that reaches main's except clause is kept in error and ends the run.    *)

SnapshotFile == "processes_<timestamp>.json"
ReportFile == "process_report_<user>_<timestamp>.html"

\* the provider names main may be called with: --ai is one of the three,
\* the AI_PROVIDER default is any string
ProviderArgs == Providers \cup {"other"}

Init ==
    /\ ai_provider \in ProviderArgs
    /\ stage = "SNAPSHOT"
    /\ processes = <<>>
    /\ files = {}
    /\ analysis = Mapping(EmptyMap)
    /\ report = <<>>
    /\ displayed = FALSE
    /\ error = ""
    /\ response = ""
    /\ content = <<>>
    /\ idx = 1
    /\ current_process = <<>>
    /\ description = <<>>
    /\ pc = ""
    /\ dom = <<>>
    /\ sortOrders = InitialSortOrders
    /\ activeKey = ""

\* processes = get_processes()
Snapshot ==
    /\ stage = "SNAPSHOT"
    /\ processes' \in Snapshots
    /\ stage' = "PERSIST_SNAPSHOT"
    /\ UNCHANGED <<ai_provider, files, analysis, report, displayed, error,
                   response, loopVars, pc, pageVars>>

\* processes_file = save_processes_to_file(processes); open or json.dump
\* may raise OSError
PersistSnapshot ==
    /\ stage = "PERSIST_SNAPSHOT"
    /\ \/ /\ files' = files \cup {SnapshotFile}
          /\ stage' = "ANALYZE"
          /\ error' = error
       \/ /\ files' = files
          /\ stage' = "END"
          /\ error' = "OSError"
    /\ UNCHANGED <<ai_provider, processes, analysis, report, displayed,
                   response, loopVars, pc, pageVars>>

\* the normalizer main dispatches to
Normalize(provider, answer) ==
    IF provider = "ollama" THEN AnalyzeOllama(answer)
    ELSE IF provider = "anthropic" THEN AnalyzeAnthropic(answer)
    ELSE AnalyzeOpenAI(answer)

\* analysis = analyze_processes_<provider>(processes_file)
Analyze ==
    /\ stage = "ANALYZE"
    /\ ai_provider \in Providers
    /\ \E answer \in Answers(ai_provider) :
          LET r == Normalize(ai_provider, answer)
          IN  /\ response' = answer.kind
              /\ IF r.raised # ""
                 THEN /\ error' = r.raised
                      /\ stage' = "END"
                      /\ analysis' = analysis
                 ELSE /\ error' = error
                      /\ stage' = "RENDER"
                      /\ analysis' = r.value
    /\ UNCHANGED <<ai_provider, processes, files, report, displayed,
                   loopVars, pc, pageVars>>

\* else: "Unsupported AI provider", return
Unsupported ==
    /\ stage = "ANALYZE"
    /\ ai_provider \notin Providers
    /\ stage' = "END"
    /\ UNCHANGED <<ai_provider, processes, files, analysis, report, displayed,
                   error, response, loopVars, pc, pageVars>>

\* report = generate_report(processes, analysis)
Render ==
    /\ stage = "RENDER"
    /\ LET r == GenerateReport(processes, analysis)
       IN  IF r.raised # ""
           THEN /\ error' = r.raised
                /\ stage' = "END"
                /\ report' = report
           ELSE /\ error' = error
                /\ stage' = "PERSIST_REPORT"
                /\ report' = r.divs
    /\ UNCHANGED <<ai_provider, processes, files, analysis, displayed,
                   response, loopVars, pc, pageVars>>

\* save_report that swallows its OSError and still returns the file name
PersistReportSwallowsError ==
    /\ stage = "PERSIST_REPORT"
    /\ \/ files' = files \cup {ReportFile}
       \/ files' = files
    /\ stage' = "DISPLAY"
    /\ UNCHANGED <<ai_provider, processes, analysis, report, displayed,
                   error, response, loopVars, pc, pageVars>>

\* filename = save_report(report); open or write may raise OSError
PersistReport ==
    /\ stage = "PERSIST_REPORT"
    /\ \/ /\ files' = files \cup {ReportFile}
          /\ stage' = "DISPLAY"
          /\ error' = error
       \/ /\ files' = files
          /\ stage' = "END"
          /\ error' = "OSError"
    /\ UNCHANGED <<ai_provider, processes, analysis, report, displayed,
                   response, loopVars, pc, pageVars>>

\* if filename: webbrowser.open(...)
Display ==
    /\ stage = "DISPLAY"
    /\ displayed' = TRUE
    /\ stage' = "END"
    /\ UNCHANGED <<ai_provider, processes, files, analysis, report, error,
                   response, loopVars, pc, pageVars>>

Next ==
    \/ Snapshot
    \/ PersistSnapshot
    \/ Analyze
    \/ Unsupported
    \/ Render
    \/ PersistReport
    \/ Display

Spec == Init /\ [][Next]_vars

---------------------------------------------------------------------------
(* SpecReport: generate_report on every snapshot and every mapping a       *)
(* normalizer may return, then the page in the browser.                    *)

SortKeys == {"threat-score", "name"}

InitReport ==
    /\ processes \in Snapshots
    /\ analysis \in Analyses
    /\ pc = "render"
    /\ report = <<>>
    /\ error = ""
    /\ dom = <<>>
    /\ sortOrders = InitialSortOrders
    /\ activeKey = ""
    /\ ai_provider = "ollama"
    /\ stage = "RENDER"
    /\ files = {SnapshotFile}
    /\ displayed = FALSE
    /\ response = ""
    /\ content = <<>>
    /\ idx = 1
    /\ current_process = <<>>
    /\ description = <<>>

\* generate_report(processes, analysis)
RenderReport ==
    /\ pc = "render"
    /\ LET r == GenerateReport(processes, analysis)
       IN  IF r.raised # ""
           THEN error' = r.raised /\ pc' = "raised" /\ report' = report
           ELSE error' = error /\ pc' = "report" /\ report' = r.divs
    /\ UNCHANGED <<ai_provider, analysis, processes, runVars, loopVars,
                   pageVars>>

\* the browser parses the page: the divs in the order of the report, then
\* the script at the end of the body, updateSortButtons('threat-score')
OpenPage ==
    /\ pc = "report"
    /\ dom' = report
    /\ activeKey' = "threat-score"
    /\ pc' = "page"
    /\ UNCHANGED <<ai_provider, analysis, error, sortOrders, runVars,
                   reportVars, loopVars>>

\* sortProcesses(key): sort, re-append, flip sortOrders[key],
\* updateSortButtons(key)
SortProcesses(key) ==
    /\ dom' = SortDivs(dom, key, sortOrders[key])
    /\ sortOrders' = [sortOrders EXCEPT ![key] = Toggle(@)]
    /\ activeKey' = key

\* window.onload
OnLoad ==
    /\ pc = "page"
    /\ SortProcesses("threat-score")
    /\ pc' = "ready"
    /\ UNCHANGED <<ai_provider, analysis, error, runVars, reportVars, loopVars>>

\* a click on a sort button
Click ==
    /\ pc = "ready"
    /\ \E key \in SortKeys : SortProcesses(key)
    /\ UNCHANGED <<ai_provider, analysis, error, pc, runVars, reportVars,
                   loopVars>>

NextReport ==
    \/ RenderReport
    \/ OpenPage
    \/ OnLoad
    \/ Click

SpecReport == InitReport /\ [][NextReport]_vars

---------------------------------------------------------------------------
(* Claims on the run of main (Spec).                                       *)

\* C1: whatever the backend call ends with, a run for one of the three
\* providers whose file writes succeed ends with the report displayed.
C1_RunReachesDisplay ==
    (stage = "END" /\ ai_provider \in Providers /\ error # "OSError")
    => displayed

\* C4: for every provider and payload the normalizer returns (raises
\* nothing into main) and what it returns is a plain mapping from names to
\* entries, never the decoded value itself.
C4_NormalizerReturnsMapping ==
    [][(stage = "ANALYZE" /\ ai_provider \in Providers)
       => (/\ stage' = "RENDER"
           /\ analysis'.t = "dict"
           /\ \A n \in DOMAIN analysis'.m : analysis'.m[n].t = "dict")]_vars

---------------------------------------------------------------------------
(* Claims on generate_report and the page (SpecReport).                    *)

Rendered == pc \in {"report", "page", "ready"}

HasDescription(name) ==
    /\ analysis.t = "dict"
    /\ name \in DOMAIN analysis.m
    /\ analysis.m[name].description # <<>>

IsFallback(div, name) ==
    div.analysis_text = NoAnalysis /\ div.search_link = SearchLink(name)

\* C8 as stated: each record is rendered once, with its entry's description
\* or with the fallback and a search link.
C8_EntryOrFallback ==
    Rendered =>
        /\ Len(report) = Len(processes)
        /\ \A i \in 1..Len(processes) :
              /\ report[i].pid = processes[i].pid
              /\ report[i].data_name = processes[i].name
              /\ \/ /\ HasDescription(processes[i].name)
                    /\ report[i].analysis_text =
                          analysis.m[processes[i].name].description[1].s
                 \/ IsFallback(report[i], processes[i].name)

\* C8 amended: each record is rendered once, with its entry's description
\* less the first "Typical function:" and trimmed, or with the fallback and
\* a search link built from its name.
C8_ShownEntryOrFallback ==
    Rendered =>
        /\ Len(report) = Len(processes)
        /\ \A i \in 1..Len(processes) :
              /\ report[i].pid = processes[i].pid
              /\ report[i].data_name = processes[i].name
              /\ \/ /\ HasDescription(processes[i].name)
                    /\ report[i].analysis_text =
                          Strip(RemoveFirst(
                             analysis.m[processes[i].name].description[1].s,
                             <<"Typical function", ":">>))
                 \/ IsFallback(report[i], processes[i].name)

\* C8 witness: a.exe is analysed ("Typical function: w1") and shown as
\* "w1" without a link, b.exe has no entry and shows the fallback and link.
C8_Witness ==
    /\ pc = "report"
    /\ Len(processes) = 2
    /\ processes[1].name = <<"a.exe">>
    /\ processes[2].name = <<"b.exe">>
    /\ analysis.t = "dict"
    /\ DOMAIN analysis.m = {<<"a.exe">>}
    /\ analysis.m[<<"a.exe">>].description =
          <<PyStr(<<"Typical function", ":", " ", "w1">>)>>
    /\ report[1].analysis_text = <<"w1">>
    /\ report[1].search_link = <<>>
    /\ report[2].analysis_text = <<"No analysis available">>
    /\ report[2].search_link = <<"https://duckduckgo.com/?q=", "b.exe">>

\* the score generate_report reads for a name: 'N/A' when there is none
ScoreOf(name) ==
    IF name \in DOMAIN analysis.m
    THEN Get(analysis.m[name].threat_score, NA)
    ELSE NA

IsNumber(v) == v.t = "float" \/ (v.t = "str" /\ ParseFloat(v.s).ok)
NumberOf(v) == IF v.t = "float" THEN v ELSE ParseFloat(v.s).val

\* nothing but a threat score can make generate_report raise
OnlyScoresVary ==
    /\ analysis.t = "dict"
    /\ \A n \in DOMAIN analysis.m :
          /\ analysis.m[n].t = "dict"
          /\ \A i \in 1..Len(analysis.m[n].description) :
                analysis.m[n].description[i].t = "str"

\* C9: generate_report raises on no threat score; a numeric score is low
\* below 4, medium below 7, else high; any other score (sentinel, other
\* string, null, non-scalar, missing) shows 'N/A', low, sort value -1.
C9_Buckets ==
    (pc # "render" /\ OnlyScoresVary) =>
        /\ error = ""
        /\ Len(report) = Len(processes)
        /\ \A i \in 1..Len(processes) :
              LET v == ScoreOf(processes[i].name)
              IN  IF IsNumber(v)
                  THEN /\ report[i].threat_score_display = NumberOf(v)
                       /\ report[i].threat_class =
                             IF FloatLess(NumberOf(v), FloatOfInt(4))
                             THEN "threat-low"
                             ELSE IF FloatLess(NumberOf(v), FloatOfInt(7))
                             THEN "threat-medium"
                             ELSE "threat-high"
                  ELSE /\ report[i].threat_score_display = NA
                       /\ report[i].threat_class = "threat-low"
                       /\ report[i].data_threat_score = <<"-", "1">>

\* C10: after sortProcesses('threat-score') every 'N/A' div is after every
\* div with a score in [0,10] when the sort was descending, before it when
\* ascending.
C10_NotAvailableLast ==
    (pc = "ready" /\ activeKey = "threat-score") =>
        \A i, j \in 1..Len(dom) :
            (dom[i].threat_score_display = NA
             /\ InRange(dom[j].threat_score_display))
            => IF sortOrders["threat-score"] = "asc" THEN j < i ELSE i < j

---------------------------------------------------------------------------
(* Claims on the free-text parser's ignored lines (SpecParse).             *)

\* the lines of ls less the blank lines and the lines before the first
\* "Process Name:" line (seen: a name line was met already)
RECURSIVE WithoutIgnored(_, _)
WithoutIgnored(ls, seen) ==
    IF ls = <<>> THEN <<>>
    ELSE LET now == seen \/ IsNameLine(Head(ls))
         IN  (IF now /\ Strip(Head(ls)) # <<>> THEN <<Head(ls)>> ELSE <<>>)
             \o WithoutIgnored(Tail(ls), now)

\* C11: the anthropic / openai parser returns, for every payload, the
\* mapping it returns for the payload without its blank lines and without
\* the lines that precede the first "Process Name:" line.
C11_IgnoresLeadingLines ==
    (Returned /\ ai_provider \in FreeTextProviders)
    => analysis = FreeTextParse(TextOf(WithoutIgnored(ContentLines, FALSE)))

---------------------------------------------------------------------------
(* Claims on the order of the stages of a run (Spec).                      *)

\* the place of a stage in the order of the run
Rank(s) ==
    CASE s = "SNAPSHOT" -> 1
      [] s = "PERSIST_SNAPSHOT" -> 2
      [] s = "ANALYZE" -> 3
      [] s = "RENDER" -> 4
      [] s = "PERSIST_REPORT" -> 5
      [] s = "DISPLAY" -> 6
      [] OTHER -> 7

\* C12: every step of a run performs the stage the run is at and moves to
\* the next stage of SNAPSHOT, PERSIST_SNAPSHOT, ANALYZE, RENDER,
\* PERSIST_REPORT, DISPLAY or ends the run (no stage repeated or revisited,
\* nothing after the end); the browser is opened only by DISPLAY with the
\* report file written; a step that fails or finds the provider unsupported
\* ends the run with nothing displayed; no step removes a written file.
C12_LinearStages ==
    [][/\ stage # "END"
       /\ Rank(stage') \in {Rank(stage) + 1, 7}
       /\ files \subseteq files'
       /\ (displayed' # displayed)
             => (stage = "DISPLAY" /\ ReportFile \in files /\ displayed')
       /\ (error' # error \/ (stage = "ANALYZE" /\ ai_provider \notin Providers))
             => (stage' = "END" /\ ~displayed')]_vars

\* C12 witness: a run that failed in PERSIST_REPORT has ended with the
\* snapshot file still on disk and nothing displayed.
C12_Witness ==
    /\ stage = "END"
    /\ error = "OSError"
    /\ response # ""
    /\ SnapshotFile \in files
    /\ ReportFile \notin files
    /\ ~displayed

===========================================================================
